---- MODULE Spec2Model ----
(***************************************************************************)
(* Model of the live view of iot4agri's sensor frontend                    *)
(* (src/sensor-frontend/app/page.tsx, component Home): one "latest         *)
(* reading" state slot {data, loading} written by fetchLatest (initial     *)
(* call and 12 s poll) and by the realtime INSERT handler.                 *)
(*                                                                         *)
(* The external source (table sensor_data) and the transport are modelled  *)
(* as the environment: rows are inserted, each insert seen by a subscribed *)
(* client queues one notification, a notification is delivered or lost,    *)
(* and a single-row query is answered with the newest row, with an error   *)
(* result, or is rejected.                                                 *)
(***************************************************************************)
EXTENDS Integers, Sequences, FiniteSets, Bags, TLC

\* ---------------------------------------------------------------- bounds
MaxHist == 2        \* rows of history the charts page is given at most
MaxTs == 2          \* timestamps of rows range over 1..MaxTs
MaxRows == 2        \* rows the source holds at most
MaxQueue == 1       \* insert notifications in transit at most
MaxInflight == 2    \* single-row fetches outstanding at most

\* ------------------------------------------------------------------ rows
\* A SensorData row, reduced to its ordering key and one numeric channel:
\* the controller never looks inside a row, it stores it whole. Timestamps
\* are unique per row, and rows differ in their channel value too.
Rows == {[timestamp |-> t, ph |-> 5 + t] : t \in 1..MaxTs}

\* data === null (useState<SensorData | null>(null)).
NoRow == [timestamp |-> 0, ph |-> 0]

\* ------------------------------------------------------------- variables
VARIABLES
    data,        \* useState data: a row or NoRow
    loading,     \* useState loading
    phase,       \* "init" (rendered, effect not run), "mounted", "torn"
    subscribed,  \* the realtime subscription is active
    polling,     \* the setInterval timer is active
    inflight,    \* bag of outstanding fetchLatest calls
    tbl,         \* the source table sensor_data: a set of rows
    queue,       \* INSERT notifications in transit to this client (FIFO)
    lastEvent,   \* history: the step taken last, with its input
    lastWrite,   \* history: the last write into data and what it replaced
    lost,        \* history: rows whose notification the transport lost
    \* the charts page (component ChartsPage)
    hist,          \* the rows of sensor_data its query returns, newest first
    chartsPc,      \* "init" (rendered, effect not run), "fetching", then
                   \* how fetchData ended: "ok", "error", "thrown"
    chartsData,    \* useState data: the row history, oldest first
    chartsLoading  \* useState loading

homeVars == <<data, loading, phase, subscribed, polling, inflight, tbl, queue,
              lastEvent, lastWrite, lost>>

chartVars == <<hist, chartsPc, chartsData, chartsLoading>>

vars == <<homeVars, chartVars>>

\* ------------------------------------------------------------ the source
MaxOf(S) == CHOOSE x \in S : \A y \in S : y <= x
MinOf(S) == CHOOSE x \in S : \A y \in S : x <= y

\* Mutation: the query ordered ascending (the oldest rows first).
QueryLatestAscending(t) ==
    IF t = {} THEN {<<>>}
    ELSE {<<r>> : r \in {x \in t : x.timestamp = MinOf({y.timestamp : y \in t})}}

\* .from('sensor_data').select('*').order('timestamp', {ascending: false})
\* .limit(1): the possible row lists. Rows sharing the newest timestamp are
\* returned in an order the source chooses.
QueryLatest(t) ==
    IF t = {} THEN {<<>>}
    ELSE {<<r>> : r \in {x \in t : x.timestamp = MaxOf({y.timestamp : y \in t})}}

\* A fetchLatest call in flight. st: "sent" (awaiting the source), "ok"
\* (resolved, rows is a list), "err" (resolved with an error result: rows is
\* null), "reject" (the awaited request was rejected).
Fetch(initial, st, rows) == [initial |-> initial, st |-> st, rows |-> rows]

\* Mutation: a fetched row older than the held reading is ignored.
FetchedDataIfNewer(f, cur) ==
    IF f.st = "ok" /\ Len(f.rows) > 0
       THEN (IF f.rows[1].timestamp >= cur.timestamp THEN f.rows[1] ELSE cur)
       ELSE NoRow

\* rows?.[0] ?? null, the argument of setData in fetchLatest. rows is null on
\* an error result and [] when the source is empty.
FetchedData(f, cur) ==
    IF f.st = "ok" /\ Len(f.rows) > 0 THEN f.rows[1] ELSE NoRow

\* Mutation: a payload older than the held reading is ignored.
PushedDataIfNewer(payload, cur) ==
    IF payload.timestamp >= cur.timestamp THEN payload ELSE cur

\* Mutation: the payload is merged into the held reading field by field.
PushedDataMerged(payload, cur) ==
    IF cur = NoRow THEN payload
    ELSE [timestamp |-> payload.timestamp, ph |-> cur.ph]

\* payload.new as SensorData, the argument of setData in the push handler.
PushedData(payload, cur) == payload

\* loading && !data: the page renders the loading indicator.
ShowsLoadingIndicator == loading /\ data = NoRow

Event(op, f, row) == [op |-> op, fetch |-> f, row |-> row]
NoFetch == Fetch(FALSE, "none", <<>>)

Write(by, val, old) == [by |-> by, val |-> val, overBy |-> old.by, overVal |-> old.val]

One(f) == SetToBag({f})

\* --------------------------------------------------------------- initial
\* The charts page is not open.
ChartsIdle ==
    /\ hist = <<>>
    /\ chartsPc = "init"
    /\ chartsData = <<>>
    /\ chartsLoading = TRUE

Init ==
    /\ data = NoRow
    /\ loading = TRUE
    /\ phase = "init"
    /\ subscribed = FALSE
    /\ polling = FALSE
    /\ inflight = EmptyBag
    /\ tbl \in {t \in SUBSET Rows : Cardinality(t) <= MaxRows}
    /\ queue = <<>>
    /\ lastEvent = Event("init", NoFetch, NoRow)
    /\ lastWrite = [by |-> "none", val |-> NoRow, overBy |-> "none", overVal |-> NoRow]
    /\ lost = {}
    /\ ChartsIdle

\* --------------------------------------------------------------- actions
\* Mutation: the effect installs no poll timer.
StartWithoutPoll ==
    /\ phase = "init"
    /\ phase' = "mounted"
    /\ loading' = TRUE
    /\ inflight' = inflight (+) One(Fetch(TRUE, "sent", <<>>))
    /\ subscribed' = TRUE
    /\ polling' = FALSE
    /\ lastEvent' = Event("start", NoFetch, NoRow)
    /\ UNCHANGED <<data, tbl, queue, lastWrite, lost>>
    /\ UNCHANGED chartVars

\* useEffect(() => { fetchLatest(); subscribe; setInterval }, []): the
\* synchronous part of fetchLatest sets loading and issues the query.
Start ==
    /\ phase = "init"
    /\ phase' = "mounted"
    /\ loading' = TRUE
    /\ inflight' = inflight (+) One(Fetch(TRUE, "sent", <<>>))
    /\ subscribed' = TRUE
    /\ polling' = TRUE
    /\ lastEvent' = Event("start", NoFetch, NoRow)
    /\ UNCHANGED <<data, tbl, queue, lastWrite, lost>>
    /\ UNCHANGED chartVars

\* The interval fires: fetchLatest() up to its await.
Tick ==
    /\ polling
    /\ BagCardinality(inflight) < MaxInflight
    /\ loading' = TRUE
    /\ inflight' = inflight (+) One(Fetch(FALSE, "sent", <<>>))
    /\ lastEvent' = Event("tick", NoFetch, NoRow)
    /\ UNCHANGED <<data, phase, subscribed, polling, tbl, queue, lastWrite, lost>>
    /\ UNCHANGED chartVars

\* The source answers an outstanding query: with the newest row of the
\* table as it is now, with an error result, or the request is rejected.
Answer(f) ==
    /\ f.st = "sent"
    /\ \E g \in {Fetch(f.initial, "ok", rows) : rows \in QueryLatest(tbl)}
            \cup {Fetch(f.initial, "err", <<>>), Fetch(f.initial, "reject", <<>>)} :
          inflight' = (inflight (-) One(f)) (+) One(g)
    /\ lastEvent' = Event("answer", NoFetch, NoRow)
    /\ UNCHANGED <<data, loading, phase, subscribed, polling, tbl, queue,
                   lastWrite, lost>>
    /\ UNCHANGED chartVars

\* fetchLatest resumes after its await: setData(rows?.[0] ?? null) and
\* setLoading(false); a rejected await ends the call with neither.
Complete(f) ==
    /\ f.st \in {"ok", "err", "reject"}
    /\ inflight' = inflight (-) One(f)
    /\ lastEvent' = Event("complete", f, NoRow)
    /\ IF f.st = "reject"
          THEN UNCHANGED <<data, loading, lastWrite>>
          ELSE /\ data' = FetchedData(f, data)
               /\ loading' = FALSE
               /\ lastWrite' = Write(IF f.st # "ok" THEN "fetchErr"
                                     ELSE IF f.initial THEN "initialOk" ELSE "pollOk",
                                     IF f.st = "ok" /\ Len(f.rows) > 0
                                        THEN f.rows[1] ELSE NoRow,
                                     lastWrite)
    /\ UNCHANGED <<phase, subscribed, polling, tbl, queue, lost>>
    /\ UNCHANGED chartVars

\* A device inserts a row; a subscribed client is sent one notification.
Insert(r) ==
    /\ r \notin tbl
    /\ Cardinality(tbl) < MaxRows
    /\ subscribed => Len(queue) < MaxQueue
    /\ tbl' = tbl \cup {r}
    /\ queue' = IF subscribed THEN Append(queue, r) ELSE queue
    /\ lastEvent' = Event("insert", NoFetch, NoRow)
    /\ UNCHANGED <<data, loading, phase, subscribed, polling, inflight,
                   lastWrite, lost>>
    /\ UNCHANGED chartVars

\* The postgres_changes handler runs: setData(payload.new).
Push ==
    /\ subscribed
    /\ queue # <<>>
    /\ data' = PushedData(Head(queue), data)
    /\ queue' = Tail(queue)
    /\ lastEvent' = Event("push", NoFetch, Head(queue))
    /\ lastWrite' = Write("push", Head(queue), lastWrite)
    /\ UNCHANGED <<loading, phase, subscribed, polling, inflight, tbl, lost>>
    /\ UNCHANGED chartVars

\* The transport loses a notification.
DropPush ==
    /\ subscribed
    /\ queue # <<>>
    /\ queue' = Tail(queue)
    /\ lastEvent' = Event("drop", NoFetch, Head(queue))
    /\ lost' = lost \cup {Head(queue)}
    /\ UNCHANGED <<data, loading, phase, subscribed, polling, inflight, tbl,
                   lastWrite>>
    /\ UNCHANGED chartVars

\* A notification still in transit arrives after the cleanup called
\* sub.unsubscribe(). The cleanup does not await the unsubscribe and the
\* handler has no guard of its own, so whether the channel still dispatches
\* is the realtime client's choice: either the handler runs once more,
\* setData(payload.new), or the notification is discarded.
LatePush ==
    /\ ~subscribed
    /\ queue # <<>>
    /\ queue' = Tail(queue)
    /\ \/ /\ data' = PushedData(Head(queue), data)
          /\ lastEvent' = Event("latePush", NoFetch, Head(queue))
          /\ lastWrite' = Write("push", Head(queue), lastWrite)
       \/ /\ lastEvent' = Event("lateDiscard", NoFetch, Head(queue))
          /\ UNCHANGED <<data, lastWrite>>
    /\ UNCHANGED <<loading, phase, subscribed, polling, inflight, tbl, lost>>
    /\ UNCHANGED chartVars

\* The effect's cleanup: sub.unsubscribe(); clearInterval(poll).
Teardown ==
    /\ phase = "mounted"
    /\ phase' = "torn"
    /\ subscribed' = FALSE
    /\ polling' = FALSE
    /\ lastEvent' = Event("teardown", NoFetch, NoRow)
    /\ UNCHANGED <<data, loading, inflight, tbl, queue, lastWrite, lost>>
    /\ UNCHANGED chartVars

Next ==
    \/ Start
    \/ Tick
    \/ \E f \in BagToSet(inflight) : Answer(f)
    \/ \E f \in BagToSet(inflight) : Complete(f)
    \/ \E r \in Rows : Insert(r)
    \/ Push
    \/ DropPush
    \/ LatePush
    \/ Teardown

Spec == Init /\ [][Next]_vars

\* The scheduling the runtime gives: the effect runs after the first render,
\* the interval keeps firing while it is set, every query is answered, every
\* settled await resumes its call, and a notification in transit arrives or
\* is lost.
Fairness ==
    /\ WF_vars(Start)
    /\ WF_vars(Tick)
    /\ WF_vars(\E f \in BagToSet(inflight) : Answer(f))
    /\ WF_vars(\E f \in BagToSet(inflight) : Complete(f))
    /\ WF_vars(Push \/ DropPush \/ LatePush)

LiveSpec == Init /\ [][Next]_vars /\ Fairness

\* ------------------------------------------------------- the charts page
\* Model of src/unnamed/part_000 (component ChartsPage and SensorChart).
\*
\* A JavaScript number (IEEE 754 double) is held as sign, mantissa and
\* exponent: the value is sg * M * 2^exp, where the mantissa M is a whole
\* number of exactly 53 bits, written in four digits of base 2^14, most
\* significant first (man = <<m1, m2, m3, m4>>, M = m1 * 2^42 + m2 * 2^28 +
\* m3 * 2^14 + m4). Zero has sign 1, mantissa 0 and exponent 0. Every
\* operation gives the exact result rounded to 53 bits, ties to even, as the
\* hardware does. Left out: -0, the infinities and the subnormal numbers
\* (the exponent is not limited).
Base == 2^14

\* Whole numbers of up to 126 bits, for the exact results: nine digits of
\* base 2^14, least significant first.
BigIdx == 1..9
BigZero == [i \in BigIdx |-> 0]
BigOfInt(x) ==
    [i \in BigIdx |-> IF i = 1 THEN x % Base
                      ELSE IF i = 2 THEN (x \div Base) % Base
                      ELSE IF i = 3 THEN x \div (Base * Base)
                      ELSE 0]
BigOfMan(man) == [i \in BigIdx |-> IF i <= 4 THEN man[5 - i] ELSE 0]
ManOfBig(a) == <<a[4], a[3], a[2], a[1]>>

\* Carries (or borrows) moved up, so that every digit is in 0..Base-1.
Carry(v) ==
    LET t1 == v[1]
        t2 == v[2] + (t1 \div Base)
        t3 == v[3] + (t2 \div Base)
        t4 == v[4] + (t3 \div Base)
        t5 == v[5] + (t4 \div Base)
        t6 == v[6] + (t5 \div Base)
        t7 == v[7] + (t6 \div Base)
        t8 == v[8] + (t7 \div Base)
        t9 == v[9] + (t8 \div Base)
    IN  <<t1 % Base, t2 % Base, t3 % Base, t4 % Base, t5 % Base, t6 % Base,
          t7 % Base, t8 % Base, t9 % Base>>

BigAdd(a, b) == Carry([i \in BigIdx |-> a[i] + b[i]])
\* a - b, for a >= b.
BigSub(a, b) == Carry([i \in BigIdx |-> a[i] - b[i]])
BigLess(a, b) ==
    \E i \in BigIdx : a[i] < b[i] /\ \A j \in (i + 1)..9 : a[j] = b[j]

\* The product of two mantissas.
BigMul(a, b) ==
    Carry([k \in BigIdx |->
             (IF k \in 1..4 THEN a[1] * b[k] ELSE 0)
           + (IF k - 1 \in 1..4 THEN a[2] * b[k - 1] ELSE 0)
           + (IF k - 2 \in 1..4 THEN a[3] * b[k - 2] ELSE 0)
           + (IF k - 3 \in 1..4 THEN a[4] * b[k - 3] ELSE 0)])

\* a * 2^s and the whole part of a / 2^s.
ShiftLeft(a, s) ==
    Carry([i \in BigIdx |-> IF i > s \div 14 THEN a[i - s \div 14] * 2^(s % 14) ELSE 0])
ShiftRight(a, s) ==
    LET k == s \div 14
        r == s % 14
        digit(i) == IF i <= 9 THEN a[i] ELSE 0
    IN  [i \in BigIdx |-> digit(i + k) \div 2^r + (digit(i + k + 1) % 2^r) * 2^(14 - r)]

\* The number of bits of a digit x (0 for 0, n when 2^(n-1) <= x < 2^n), and
\* of a whole number a.
BitLen(x) == CHOOSE n \in 0..14 : x < 2^n /\ (n = 0 \/ 2^(n - 1) <= x)
BigBits(a) ==
    IF a = BigZero
       THEN 0
       ELSE LET j == CHOOSE i \in BigIdx : a[i] # 0 /\ \A k \in (i + 1)..9 : a[k] = 0
            IN  14 * (j - 1) + BitLen(a[j])
\* Bit i of a (bit 0 is the lowest).
BigBit(a, i) == (a[i \div 14 + 1] \div 2^(i % 14)) % 2

Zero == [sg |-> 1, man |-> <<0, 0, 0, 0>>, exp |-> 0]
IsZero(d) == d.man = <<0, 0, 0, 0>>

\* The double nearest to sg * (a + f) * 2^e, ties to even, where f is 0 when
\* sticky is FALSE and some fraction strictly between 0 and 1 otherwise (then
\* a has more than 53 bits).
RoundTo53(sg, a, e, sticky) ==
    LET len == BigBits(a)
        d == len - 53
        q == ShiftRight(a, d)
        half == BigBit(a, d - 1) = 1
        rest == sticky \/ a # ShiftLeft(ShiftRight(a, d - 1), d - 1)
        odd == q[1] % 2 = 1
        q1 == IF half /\ (rest \/ odd)
                 THEN Carry([i \in BigIdx |-> IF i = 1 THEN q[i] + 1 ELSE q[i]])
                 ELSE q
    IN  IF len = 0
           THEN Zero
           ELSE IF len <= 53
                   THEN [sg |-> sg, man |-> ManOfBig(ShiftLeft(a, 53 - len)),
                         exp |-> e - (53 - len)]
                   ELSE IF BigBits(q1) = 54
                           THEN [sg |-> sg, man |-> ManOfBig(ShiftRight(q1, 1)),
                                 exp |-> e + d + 1]
                           ELSE [sg |-> sg, man |-> ManOfBig(q1), exp |-> e + d]

\* The double n / 2^k of whole numbers n (below 2^31 in size) and k >= 0, and
\* the double of a whole number x.
Dyadic(n, k) ==
    RoundTo53(IF n < 0 THEN -1 ELSE 1, BigOfInt(IF n < 0 THEN -n ELSE n), -k, FALSE)
Whole(x) == Dyadic(x, 0)

\* The literal 0.1: the double nearest to 1/10, 7205759403792794 / 2^56.
Tenth == [sg |-> 1, man |-> <<1638, 6553, 9830, 6554>>, exp |-> -56]

\* a + b of doubles. The operand of the lesser exponent is added exactly when
\* the exponents differ by at most 60; beyond that it is less than a
\* hundredth of the last place of the other and the sum rounds to the other.
DAdd(a, b) ==
    IF IsZero(a) THEN b
    ELSE IF IsZero(b) THEN a
    ELSE LET hi == IF a.exp >= b.exp THEN a ELSE b
             lo == IF a.exp >= b.exp THEN b ELSE a
             h == ShiftLeft(BigOfMan(hi.man), hi.exp - lo.exp)
             l == BigOfMan(lo.man)
         IN  IF hi.exp - lo.exp > 60
                THEN hi
                ELSE IF a.sg = b.sg
                        THEN RoundTo53(a.sg, BigAdd(h, l), lo.exp, FALSE)
                        ELSE IF h = l
                                THEN Zero
                                ELSE IF BigLess(h, l)
                                        THEN RoundTo53(lo.sg, BigSub(l, h), lo.exp, FALSE)
                                        ELSE RoundTo53(hi.sg, BigSub(h, l), lo.exp, FALSE)
DNeg(a) == IF IsZero(a) THEN a ELSE [sg |-> -a.sg, man |-> a.man, exp |-> a.exp]
\* a - b of doubles.
DSub(a, b) == DAdd(a, DNeg(b))

\* a * b of doubles.
DTimes(a, b) ==
    IF IsZero(a) \/ IsZero(b)
       THEN Zero
       ELSE RoundTo53(a.sg * b.sg, BigMul(BigOfMan(a.man), BigOfMan(b.man)),
                      a.exp + b.exp, FALSE)

\* a < b of the sizes of two doubles, and a <= b of doubles.
MagLess(a, b) ==
    /\ ~IsZero(b)
    /\ \/ IsZero(a)
       \/ a.exp < b.exp
       \/ a.exp = b.exp /\ BigLess(BigOfMan(a.man), BigOfMan(b.man))
DLeq(a, b) ==
    \/ a = b
    \/ a.sg < b.sg
    \/ a.sg = 1 /\ b.sg = 1 /\ MagLess(a, b)
    \/ a.sg = -1 /\ b.sg = -1 /\ MagLess(b, a)
\* Math.min(...allValues) and Math.max(...allValues) of a non-empty pool.
DMin(S) == CHOOSE x \in S : \A y \in S : DLeq(x, y)
DMax(S) == CHOOSE x \in S : \A y \in S : DLeq(y, x)

\* A JavaScript value of a row field: null, undefined (the field is missing),
\* a number, NaN, or a string. Num(x) is the whole number x, Reading(n, k)
\* the number n / 2^k.
Null == [t |-> "null", n |-> Zero]
Undefined == [t |-> "undefined", n |-> Zero]
NaN == [t |-> "nan", n |-> Zero]
Str == [t |-> "string", n |-> Zero]
Reading(n, k) == [t |-> "number", n |-> Dyadic(n, k)]
Num(x) == Reading(x, 0)

\* typeof value === 'number' (NaN is a number to typeof).
TypeofNumber(v) == v.t \in {"number", "nan"}
\* isNaN(value), for a value typeof calls a number.
IsNaN(v) == v.t = "nan"

NumericChannels ==
    {"ph", "ph_voltage", "temp1", "temp2", "bme_temperature", "bme_humidity",
     "bme_pressure", "bme_gas_resistance", "methane_ppm", "methane_percent",
     "methane_temperature"}
ListFields == {"methan_raw", "methane_faults"}

\* type SensorData: the fields of a raw row.
SensorDataKeys == {"timestamp"} \cup NumericChannels \cup ListFields
\* type ChartDataPoint: the fields of a chart point.
ChartDataPointKeys == {"timestamp", "date"} \cup NumericChannels

\* The raw rows the model feeds in: temp1 and temp2 vary, pH is 0, every
\* other channel and both lists are null. ts is the row's timestamp.
Temp1Vals == {Null, Undefined, NaN, Str, Num(10), Num(30)}
Temp2Vals == {Null, Num(20), Reading(1, 2)}
PhVals == {Num(0)}
RawRow(ts, p, a, b) ==
    [k \in SensorDataKeys |->
        CASE k = "timestamp" -> [t |-> "timestamp", n |-> ts]
          [] k = "ph" -> p
          [] k = "temp1" -> a
          [] k = "temp2" -> b
          [] OTHER -> Null]
RawRowsAt(ts) == {RawRow(ts, p, a, b) : p \in PhVals, a \in Temp1Vals, b \in Temp2Vals}

\* What the full-history query can return: rows ordered by timestamp,
\* newest first.
Histories ==
    UNION {{h \in [1..n -> UNION {RawRowsAt(ts) : ts \in 1..n}] :
               \A i \in 1..n : h[i]["timestamp"].n = n + 1 - i} : n \in 0..MaxHist}

\* Alarm definitions (label and color left out).
Zone(min, max) == [min |-> min, max |-> max]
\* Mutation: the optimal pH band reaches into the alkaline band.
ALARM_ZONES_Overlapping ==
    [tank_temperature |-> <<Zone(0, 30), Zone(30, 40), Zone(40, 80)>>,
     ph |-> <<Zone(0, 6), Zone(6, 9), Zone(8, 14)>>]

ALARM_ZONES ==
    [tank_temperature |-> <<Zone(0, 30), Zone(30, 40), Zone(40, 80)>>,
     ph |-> <<Zone(0, 6), Zone(6, 8), Zone(8, 14)>>]

\* The props of one SensorChart: dataKeys, domain (<<>> when not given),
\* autoScale (FALSE when not given), alarmZones (<<>> when not given).
Chart(dataKeys, domain, autoScale, alarmZones) ==
    [dataKeys |-> dataKeys, domain |-> domain, autoScale |-> autoScale,
     alarmZones |-> alarmZones]

\* domain={[0, 80]}
TankDomain == <<Whole(0), Whole(80)>>

\* The seven charts ChartsPage renders.
PageCharts ==
    {Chart(<<"ph">>, <<>>, FALSE, ALARM_ZONES.ph),
     Chart(<<"temp1", "temp2">>, TankDomain, FALSE, ALARM_ZONES.tank_temperature),
     Chart(<<"bme_temperature", "methane_temperature">>, <<>>, FALSE, <<>>),
     Chart(<<"bme_humidity">>, <<>>, FALSE, <<>>),
     Chart(<<"bme_pressure">>, <<>>, TRUE, <<>>),
     Chart(<<"bme_gas_resistance">>, <<>>, FALSE, <<>>),
     Chart(<<"methane_ppm", "methane_percent">>, <<>>, FALSE, <<>>)}

\* The props SensorChart is checked with: the page's charts, and the charts
\* of the channels the rows fill (pH and the tank temperatures) also with the
\* other settings of autoScale and of a fixed domain, and with the first or
\* the last key alone.
Charts ==
    PageCharts \cup
    UNION {{Chart(ks, dm, a, c.alarmZones) :
               a \in BOOLEAN, dm \in {<<>>, TankDomain},
               ks \in {c.dataKeys, <<c.dataKeys[1]>>, <<c.dataKeys[Len(c.dataKeys)]>>}} :
           c \in {pc \in PageCharts : pc.dataKeys[1] \in {"ph", "temp1"}}}

\* formatTimestamp(point.timestamp) and toLocaleDateString('en-US'): the
\* display label and the date key, each a rendering of the timestamp.
FormatTimestamp(ts) == [t |-> "en-US date and time", n |-> ts.n]
FormatDate(ts) == [t |-> "en-US date", n |-> ts.n]

\* Mutation: a null channel becomes 0.
CoalesceToZero(v) == IF v.t \in {"null", "undefined"} THEN Num(0) ELSE v

\* point.ph ?? undefined: null and undefined become undefined.
Coalesce(v) == IF v.t \in {"null", "undefined"} THEN Undefined ELSE v

\* The body of data.map(point => ({...})): one ChartDataPoint.
ChartDataPoint(point) ==
    [k \in ChartDataPointKeys |->
        CASE k = "timestamp" -> FormatTimestamp(point["timestamp"])
          [] k = "date" -> FormatDate(point["timestamp"])
          [] OTHER -> Coalesce(point[k])]

\* const chartData = data.map(...)
ChartData(rows) == [i \in 1..Len(rows) |-> ChartDataPoint(rows[i])]

\* dataKeys.some(key => point[key] !== undefined)
HasSomeKey(point, dataKeys) ==
    \E i \in 1..Len(dataKeys) : point[dataKeys[i]] # Undefined

\* Mutation: the filter keeps every point.
FilteredDataKeepAll(points, dataKeys) == points

\* const filteredData = data.filter(point => dataKeys.some(...))
FilteredData(points, dataKeys) ==
    SelectSeq(points, LAMBDA point : HasSomeKey(point, dataKeys))

\* allValues: the numbers, NaN left out, that the filtered points carry
\* under the requested keys.
AllValues(filtered, dataKeys) ==
    {v.n : v \in {w \in {filtered[j][dataKeys[i]] :
                           i \in 1..Len(dataKeys), j \in 1..Len(filtered)} :
                     TypeofNumber(w) /\ ~IsNaN(w)}}

\* Mutation: padding of 10 % of the largest value.
AutoDomainOfMax(allValues) ==
    LET min == DMin(allValues)
        max == DMax(allValues)
        padding == DTimes(max, Tenth)
    IN  <<DSub(min, padding), DAdd(max, padding)>>

\* [min - padding, max + padding] with range = max - min and
\* padding = range * 0.1, each operation in double arithmetic. (Math.min
\* and Math.max take the pool as call arguments and throw RangeError when
\* it is longer than the engine allows, about 10^5 values; the histories of
\* this model do not reach that length.)
AutoDomain(allValues) ==
    LET min == DMin(allValues)
        max == DMax(allValues)
        range == DSub(max, min)
        padding == DTimes(range, Tenth)
    IN  <<DSub(min, padding), DAdd(max, padding)>>

\* let yAxisDomain = domain; if (autoScale && filteredData.length > 0) { ...
\* if (allValues.length > 0) yAxisDomain = [min - padding, max + padding] }
YAxisDomain(chart, filtered) ==
    IF chart.autoScale /\ Len(filtered) > 0
          /\ AllValues(filtered, chart.dataKeys) # {}
       THEN AutoDomain(AllValues(filtered, chart.dataKeys))
       ELSE chart.domain

Rendered(kind, points, count, domain, zones) ==
    [kind |-> kind, points |-> points, count |-> count, domain |-> domain,
     zones |-> zones]

\* Mutation: an empty filter result still gives a chart.
SensorChartAlways(chart, points) ==
    LET filteredData == FilteredData(points, chart.dataKeys)
    IN  Rendered("chart", filteredData, Len(filteredData),
                 YAxisDomain(chart, filteredData), chart.alarmZones)

\* function SensorChart: the "No data available" card, or the chart with its
\* "N data points" line, Y axis domain and reference areas.
SensorChart(chart, points) ==
    LET filteredData == FilteredData(points, chart.dataKeys)
    IN  IF Len(filteredData) = 0
           THEN Rendered("No data available", <<>>, 0, <<>>, <<>>)
           ELSE Rendered("chart", filteredData, Len(filteredData),
                         YAxisDomain(chart, filteredData), chart.alarmZones)

\* What ChartsPage renders where the chart would be: the loading screen, the
\* "No sensor data available" screen, or the SensorChart.
PageView(chart) ==
    IF chartsLoading
       THEN Rendered("Loading sensor data...", <<>>, 0, <<>>, <<>>)
       ELSE IF Len(chartsData) = 0
               THEN Rendered("No sensor data available", <<>>, 0, <<>>, <<>>)
               ELSE SensorChart(chart, ChartData(chartsData))

\* (sensorData || []).reverse()
Reversed(rows) == [i \in 1..Len(rows) |-> rows[Len(rows) + 1 - i]]

\* The charts page opens on some history; the live view is not open.
ChartsInit ==
    /\ data = NoRow
    /\ loading = TRUE
    /\ phase = "init"
    /\ subscribed = FALSE
    /\ polling = FALSE
    /\ inflight = EmptyBag
    /\ tbl = {}
    /\ queue = <<>>
    /\ lastEvent = Event("init", NoFetch, NoRow)
    /\ lastWrite = [by |-> "none", val |-> NoRow, overBy |-> "none", overVal |-> NoRow]
    /\ lost = {}
    /\ hist \in Histories
    /\ chartsPc = "init"
    /\ chartsData = <<>>
    /\ chartsLoading = TRUE

\* useEffect(() => { fetchData() }, []): setLoading(true) and the query.
ChartsStart ==
    /\ chartsPc = "init"
    /\ chartsPc' = "fetching"
    /\ chartsLoading' = TRUE
    /\ UNCHANGED <<hist, chartsData, homeVars>>

\* The query resolves with rows (or with null data and no error): the rows
\* are reversed into data; finally setLoading(false).
ChartsFetchOk ==
    /\ chartsPc = "fetching"
    /\ \E sensorData \in {hist, <<>>} : chartsData' = Reversed(sensorData)
    /\ chartsLoading' = FALSE
    /\ chartsPc' = "ok"
    /\ UNCHANGED <<hist, homeVars>>

\* Mutation: the error branch returns before loading is reset.
ChartsFetchErrorKeepsLoading ==
    /\ chartsPc = "fetching"
    /\ chartsPc' = "error"
    /\ UNCHANGED <<hist, chartsData, chartsLoading, homeVars>>

\* The query resolves with an error result: logged, return; finally
\* setLoading(false).
ChartsFetchError ==
    /\ chartsPc = "fetching"
    /\ chartsLoading' = FALSE
    /\ chartsPc' = "error"
    /\ UNCHANGED <<hist, chartsData, homeVars>>

\* The awaited query throws: caught and logged; finally setLoading(false).
ChartsFetchThrows ==
    /\ chartsPc = "fetching"
    /\ chartsLoading' = FALSE
    /\ chartsPc' = "thrown"
    /\ UNCHANGED <<hist, chartsData, homeVars>>

ChartsNext ==
    \/ ChartsStart
    \/ ChartsFetchOk
    \/ ChartsFetchError
    \/ ChartsFetchThrows

ChartsSpec == ChartsInit /\ [][ChartsNext]_vars

\* ------------------------------------------------------------ vocabulary
\* The initial fetch (the fetchLatest call of the effect) has completed.
InitialDone ==
    /\ phase # "init"
    /\ \A f \in BagToSet(inflight) : ~f.initial

\* The last step was the completion of a fetch that failed.
FailedCompletion(e) == e.op = "complete" /\ e.fetch.st \in {"err", "reject"}

\* What a resolved fetch carries: its first row, or none.
Carried(f) == IF f.st = "ok" /\ Len(f.rows) > 0 THEN f.rows[1] ELSE NoRow

\* rows is the answer of "newest row by timestamp, limit 1" over table t.
IsNewestOf(rows, t) ==
    \/ t = {} /\ rows = <<>>
    \/ /\ Len(rows) = 1
       /\ rows[1] \in t
       /\ \A r \in t : r.timestamp <= rows[1].timestamp

\* ---------------------------------------------------------------- claims

\* C1: a failed single-row fetch (error result or rejection) leaves the held
\* reading as it was before the completion.
C1_FailedFetchKeepsReading ==
    [][FailedCompletion(lastEvent') => data' = data]_vars

\* C2: in the state the initial fetch leaves when it fails (error result or
\* rejection), loading is false and the reading is none or unchanged.
C2_InitialFailureClearsLoading ==
    [][(FailedCompletion(lastEvent') /\ lastEvent'.fetch.initial)
          => (loading' = FALSE /\ data' \in {NoRow, data})]_vars

\* C3: teardown releases the subscription and the poll timer in one step,
\* they stay released, and after teardown a push delivery or a timer tick
\* leaves reading and loading unchanged.
C3_TeardownReleasesBoth ==
    [][/\ (phase = "mounted" /\ phase' = "torn")
            => (subscribed /\ polling /\ ~subscribed' /\ ~polling')
       /\ phase = "torn" => (phase' = "torn" /\ ~subscribed' /\ ~polling')
       /\ (phase = "torn" /\ lastEvent'.op \in {"push", "latePush", "tick"})
            => (data' = data /\ loading' = loading)]_vars

\* C4: the held reading is the payload or result of the write that completed
\* last, whatever the timestamps.
C4_LastWriteWins ==
    lastWrite.by \in {"push", "initialOk", "pollOk"} => data = lastWrite.val

\* C4 witness: a push delivered R1, then a fetch completed with an older R2,
\* and R2 is held.
C4_Witness ==
    /\ lastWrite.by = "pollOk"
    /\ lastWrite.overBy = "push"
    /\ lastWrite.val # NoRow
    /\ lastWrite.overVal.timestamp > lastWrite.val.timestamp
    /\ data = lastWrite.val

\* The newest row of the source, or none when it is empty.
NewestOrNone(t) ==
    IF t = {} THEN NoRow
    ELSE CHOOSE r \in t : \A x \in t : x.timestamp <= r.timestamp

\* No outstanding fetch has failed.
NoFailedFetch == \A f \in BagToSet(inflight) : f.st \notin {"err", "reject"}

\* C5: if from some point on the controller stays up and no fetch fails, then
\* (the source having stopped changing) the held reading eventually equals
\* the newest row of the source and stays equal to it, also when the
\* notification of that row was lost.
C5_PollRecovers ==
    (<>[](phase = "mounted" /\ NoFailedFetch)) => <>[](data = NewestOrNone(tbl))

\* C5 witness: the notification of the newest row was lost, and a poll put
\* that row into the reading.
C5_Witness ==
    /\ phase = "mounted"
    /\ data \in lost
    /\ data = NewestOrNone(tbl)
    /\ lastEvent.op = "complete"
    /\ ~lastEvent.fetch.initial
    /\ queue = <<>>

\* C6: once the initial fetch has completed, loading is false.
C6_LoadingOnlyDuringInitial ==
    InitialDone => ~loading

\* C7: once the first fetch has completed, the loading indicator is not
\* displayed.
C7_IndicatorOnlyDuringFirstFetch ==
    InitialDone => ~ShowsLoadingIndicator

\* C8: every change of the held reading is made by the push handler or by a
\* resolved fetch, and puts in it one whole row: the payload delivered, or the
\* row the fetch carried (none when it carried no row).
C8_WholeRowWrites ==
    [][data' # data =>
          \/ lastEvent'.op \in {"push", "latePush"} /\ data' = Head(queue)
          \/ /\ lastEvent'.op = "complete"
             /\ lastEvent'.fetch.st \in {"ok", "err"}
             /\ data' = Carried(lastEvent'.fetch)]_vars

\* C8 witness: a push replaced a different fetched row while a fetch was
\* outstanding, and the payload is held whole.
C8_Witness ==
    /\ lastEvent.op = "push"
    /\ lastWrite.overBy \in {"initialOk", "pollOk"}
    /\ lastWrite.overVal # NoRow
    /\ lastWrite.overVal # lastEvent.row
    /\ inflight # EmptyBag
    /\ data = lastEvent.row

\* C9: a push delivered while subscribed sets the reading to its payload,
\* whatever the held reading and the outstanding fetches, and leaves loading
\* as it was.
C9_PushOverwrites ==
    [][lastEvent'.op = "push"
          => (subscribed /\ data' = lastEvent'.row /\ loading' = loading)]_vars

\* C9 witness: a payload older than the held reading was delivered while a
\* fetch was outstanding, and is held.
C9_Witness ==
    /\ lastEvent.op = "push"
    /\ lastWrite.overVal.timestamp > lastEvent.row.timestamp
    /\ inflight # EmptyBag
    /\ loading
    /\ data = lastEvent.row

\* C10: start issues exactly one fetch, every answer carries the newest row
\* of the source (no row when it is empty), and when the initial fetch
\* succeeds the reading is the row it carried (or none) and loading is false.
C10_StartFetchesNewest ==
    [][/\ lastEvent'.op = "start"
            => (inflight = EmptyBag /\ inflight' = One(Fetch(TRUE, "sent", <<>>)))
       /\ lastEvent'.op = "answer"
            => \A g \in BagToSet(inflight') :
                  (g.st = "ok" /\ CopiesIn(g, inflight') > CopiesIn(g, inflight))
                     => IsNewestOf(g.rows, tbl)
       /\ (lastEvent'.op = "complete" /\ lastEvent'.fetch.initial
              /\ lastEvent'.fetch.st = "ok")
            => (data' = Carried(lastEvent'.fetch) /\ loading' = FALSE)]_vars

\* C10 witness: the initial fetch succeeded with the newer of two rows.
C10_Witness ==
    /\ lastEvent.op = "complete"
    /\ lastEvent.fetch.initial
    /\ lastEvent.fetch.st = "ok"
    /\ data # NoRow
    /\ lastEvent.fetch.rows = <<data>>
    /\ \E r \in tbl : r.timestamp < data.timestamp
    /\ ~loading

\* A poll overwrote a newer pushed reading with an older row, nothing has
\* been written since, and the pushed row is still the newest of the source.
StaleOverwrite ==
    /\ lastWrite.by = "pollOk"
    /\ lastWrite.overBy = "push"
    /\ lastWrite.val # NoRow
    /\ lastWrite.overVal.timestamp > lastWrite.val.timestamp
    /\ data = lastWrite.val
    /\ lastWrite.overVal = NewestOrNone(tbl)

\* The step is the successful completion of a poll fetch.
PollCompletion(e) == e.op = "complete" /\ ~e.fetch.initial /\ e.fetch.st = "ok"

\* C18 as stated: a poll completing with a row older than the pushed reading
\* held replaces it, and after such an overwrite, with the source unchanged,
\* the next poll that completes successfully restores the newest row.
C18_NextPollRestores ==
    [][/\ (PollCompletion(lastEvent') /\ lastWrite.by = "push"
              /\ Carried(lastEvent'.fetch) # NoRow
              /\ Carried(lastEvent'.fetch).timestamp < data.timestamp)
            => data' = Carried(lastEvent'.fetch)
       /\ (StaleOverwrite /\ PollCompletion(lastEvent'))
            => data' = NewestOrNone(tbl)]_vars

\* C18 amended: a poll completing with a row older than the pushed reading
\* held replaces it, and after such an overwrite, with the source unchanged,
\* the next successfully completed poll whose query read the source after
\* the insert restores the newest row.
C18_FreshPollRestores ==
    [][/\ (PollCompletion(lastEvent') /\ lastWrite.by = "push"
              /\ Carried(lastEvent'.fetch) # NoRow
              /\ Carried(lastEvent'.fetch).timestamp < data.timestamp)
            => data' = Carried(lastEvent'.fetch)
       /\ (StaleOverwrite /\ PollCompletion(lastEvent')
              /\ \E r \in tbl : r.timestamp >= lastWrite.overVal.timestamp
                                /\ lastEvent'.fetch.rows = <<r>>)
            => data' = NewestOrNone(tbl)]_vars

\* C18 witness: a poll that read the source before the insert completed after
\* the push and left the older row in the reading.
C18_Witness ==
    /\ StaleOverwrite
    /\ PollCompletion(lastEvent)
    /\ phase = "mounted"

\* C19: after teardown no step changes reading or loading.
C19_NoWriteAfterTeardown ==
    [][phase = "torn" => (data' = data /\ loading' = loading)]_vars

\* ------------------------------------------------- claims: the charts page
\* The points the page builds from the history it holds.
Points == ChartData(chartsData)

\* A value is present on a point: it is not "no value".
Present(v) == v.t # "undefined"

\* Point p carries at least one of the keys of the list ks.
Carries(p, ks) == \E i \in 1..Len(ks) : Present(p[ks[i]])

\* out is a subsequence of in, in the same relative order.
IsSubsequence(out, in) ==
    \E f \in [1..Len(out) -> 1..Len(in)] :
        /\ \A i, j \in 1..Len(out) : i < j => f[i] < f[j]
        /\ \A i \in 1..Len(out) : out[i] = in[f[i]]

\* C11: for every raw row and numeric channel the point's field is absent iff
\* the row's value is null or missing, and is the row's value otherwise (0
\* stays 0, null never becomes 0 or NaN); a point has no string-list field.
C11_NullInAbsentOut ==
    \A i \in 1..Len(chartsData) :
        LET row == chartsData[i]
            point == Points[i]
        IN  /\ DOMAIN point \cap ListFields = {}
            /\ \A k \in NumericChannels :
                  /\ ~Present(point[k]) <=> row[k].t \in {"null", "undefined"}
                  /\ row[k].t \notin {"null", "undefined"} => point[k] = row[k]
                  /\ row[k] = Num(0) => point[k] = Num(0)
                  /\ row[k] = Null => point[k] \notin {Num(0), NaN}

\* C11 witness: a row with a 0 reading, a null channel and a missing channel
\* has been normalised.
C11_Witness ==
    /\ chartsPc = "ok"
    /\ \E i \in 1..Len(chartsData) :
          /\ chartsData[i]["ph"] = Num(0)
          /\ chartsData[i]["temp2"] = Null
          /\ Points[i]["ph"] = Num(0)
          /\ ~Present(Points[i]["temp2"])
    /\ \E i \in 1..Len(chartsData) : chartsData[i]["temp1"] = Undefined

\* C12: the filter's output is a subsequence of its input in the same order,
\* no longer than the input, and holds a point iff the point carries at
\* least one requested key.
C12_FilterKeepsCarriers ==
    \A chart \in Charts :
        LET out == FilteredData(Points, chart.dataKeys)
        IN  /\ IsSubsequence(out, Points)
            /\ Len(out) <= Len(Points)
            /\ \A i \in 1..Len(Points) :
                  (\E j \in 1..Len(out) : out[j] = Points[i])
                     <=> Carries(Points[i], chart.dataKeys)

\* C12 witness: of two points one carries only the second of two requested
\* keys and is kept, the other carries neither and is dropped.
C12_Witness ==
    /\ chartsPc = "ok"
    /\ Len(Points) = 2
    /\ \E chart \in Charts :
          /\ Len(chart.dataKeys) = 2
          /\ Len(FilteredData(Points, chart.dataKeys)) = 1
          /\ \E i \in 1..2 :
                /\ ~Present(Points[i][chart.dataKeys[1]])
                /\ Present(Points[i][chart.dataKeys[2]])

\* The numbers of the filtered points of a chart.
PoolOf(chart) ==
    LET ps == FilteredData(Points, chart.dataKeys)
    IN  {v.n : v \in {w \in {ps[j][chart.dataKeys[i]] :
                               i \in 1..Len(chart.dataKeys), j \in 1..Len(ps)} :
                         w.t = "number"}}

\* a / 10 of a double a: the exact quotient, rounded.
DDivTen(a) ==
    LET n == ShiftLeft(BigOfMan(a.man), 8)
        r[i \in 1..10] == IF i = 10 THEN 0 ELSE (r[i + 1] * Base + n[i]) % 10
        q == [i \in BigIdx |-> (r[i + 1] * Base + n[i]) \div 10]
    IN  IF IsZero(a) THEN Zero ELSE RoundTo53(a.sg, q, a.exp - 8, r[1] # 0)

\* The whole numbers 0..40 as doubles, and the whole number a double is.
Wholes == [x \in 0..40 |-> Whole(x)]
IsSmallWhole(d) == \E x \in 0..40 : Wholes[x] = d
IntOf(d) == CHOOSE x \in 0..40 : Wholes[x] = d

\* The least and the greatest value of a chart's pool.
IsLeast(mn, pool) == mn \in pool /\ \A v \in pool : DLeq(mn, v)
IsGreatest(mx, pool) == mx \in pool /\ \A v \in pool : DLeq(v, mx)

\* C13 as stated: with auto-scale on and a non-empty pool the domain is
\* [min - (max - min)/10, max + (max - min)/10] of the pool.
C13_AutoScalePadsTenth ==
    \A chart \in Charts :
        LET pool == PoolOf(chart)
        IN  (chart.autoScale /\ pool # {}) =>
               LET dom == YAxisDomain(chart, FilteredData(Points, chart.dataKeys))
                   mn == CHOOSE v \in pool : IsLeast(v, pool)
                   mx == CHOOSE v \in pool : IsGreatest(v, pool)
                   p == DDivTen(DSub(mx, mn))
               IN  dom = <<DSub(mn, p), DAdd(mx, p)>>

\* C13 amended: with auto-scale on and a non-empty pool the domain is
\* [min - p, max + p] with p the double product (max - min) * 0.1; when
\* max - min is a whole multiple of 10 that is exactly
\* [min - (max - min)/10, max + (max - min)/10].
C13_AutoScalePadsProduct ==
    \A chart \in Charts :
        LET pool == PoolOf(chart)
        IN  (chart.autoScale /\ pool # {}) =>
               LET dom == YAxisDomain(chart, FilteredData(Points, chart.dataKeys))
                   mn == CHOOSE v \in pool : IsLeast(v, pool)
                   mx == CHOOSE v \in pool : IsGreatest(v, pool)
                   p == DTimes(DSub(mx, mn), Tenth)
               IN  /\ dom = <<DSub(mn, p), DAdd(mx, p)>>
                   /\ (/\ IsSmallWhole(mn) /\ IsSmallWhole(mx)
                       /\ (IntOf(mx) - IntOf(mn)) % 10 = 0) =>
                         dom = <<Whole(IntOf(mn) - (IntOf(mx) - IntOf(mn)) \div 10),
                                 Whole(IntOf(mx) + (IntOf(mx) - IntOf(mn)) \div 10)>>

\* C13 witness: one chart has the pool {10, 20, 30} and the domain [8, 32],
\* another a pool of one repeated value v and the domain [v, v].
C13_Witness ==
    /\ chartsPc = "ok"
    /\ \E chart \in Charts :
          /\ chart.autoScale
          /\ PoolOf(chart) = {Whole(10), Whole(20), Whole(30)}
          /\ YAxisDomain(chart, FilteredData(Points, chart.dataKeys))
                = <<Whole(8), Whole(32)>>
    /\ \E chart \in Charts :
          /\ chart.autoScale
          /\ Len(FilteredData(Points, chart.dataKeys)) = 2
          /\ PoolOf(chart) = {Whole(20)}
          /\ YAxisDomain(chart, FilteredData(Points, chart.dataKeys))
                = <<Whole(20), Whole(20)>>

\* C14: when no point carries a key of the chart the "no data" outcome is
\* produced; a chart is produced only with at least one point, and its point
\* count is the number of points that carry a key.
C14_NoDataNotEmptyChart ==
    \A chart \in Charts :
        LET out == SensorChart(chart, Points)
            n == Cardinality({i \in 1..Len(Points) : Carries(Points[i], chart.dataKeys)})
        IN  /\ n = 0 => out.kind = "No data available"
            /\ out.kind = "chart" => (Len(out.points) >= 1 /\ out.count = n)
            /\ out.kind \in {"chart", "No data available"}

\* C14 witness: rows are held, one chart has no point to show and another
\* shows one of the two points.
C14_Witness ==
    /\ chartsPc = "ok"
    /\ Len(Points) = 2
    /\ \E chart \in PageCharts : SensorChart(chart, Points).kind = "No data available"
    /\ \E chart \in PageCharts :
          /\ SensorChart(chart, Points).kind = "chart"
          /\ SensorChart(chart, Points).count = 1

C16_FetchFailureShowsNoData ==
    chartsPc \in {"error", "thrown"} =>
        /\ chartsData = <<>>
        /\ ~chartsLoading
        /\ \A chart \in PageCharts : PageView(chart).kind = "No sensor data available"

\* C16 witness: the source holds rows and the fetch ended with an error.
C16_Witness ==
    /\ chartsPc = "error"
    /\ Len(hist) = 2
    /\ \A chart \in PageCharts : PageView(chart).kind = "No sensor data available"

\* A zone list is ascending by min, each zone has min < max, and each zone
\* ends where the next begins.
Contiguous(zones) ==
    /\ \A i \in 1..Len(zones) : zones[i].min < zones[i].max
    /\ \A i \in 1..(Len(zones) - 1) :
          zones[i].min < zones[i + 1].min /\ zones[i].max = zones[i + 1].min

\* C17: the zone lists of pH and tank temperature are ascending, contiguous
\* and non-overlapping, cover [0, 14] and [0, 80], and every chart is drawn
\* with a list of the table as it is.
C17_ZonesContiguous ==
    /\ Contiguous(ALARM_ZONES.ph)
    /\ Contiguous(ALARM_ZONES.tank_temperature)
    /\ ALARM_ZONES.ph[1].min = 0
    /\ ALARM_ZONES.ph[Len(ALARM_ZONES.ph)].max = 14
    /\ ALARM_ZONES.tank_temperature[1].min = 0
    /\ ALARM_ZONES.tank_temperature[Len(ALARM_ZONES.tank_temperature)].max = 80
    /\ \A chart \in PageCharts :
          LET out == PageView(chart)
          IN  out.kind = "chart" =>
                 /\ Contiguous(out.zones)
                 /\ out.zones \in {<<>>, ALARM_ZONES.ph, ALARM_ZONES.tank_temperature}
                 /\ chart.dataKeys = <<"ph">> =>
                       (out.zones # <<>> /\ out.zones[1].min = 0
                          /\ out.zones[Len(out.zones)].max = 14)
                 /\ chart.dataKeys = <<"temp1", "temp2">> =>
                       (out.zones # <<>> /\ out.zones[1].min = 0
                          /\ out.zones[Len(out.zones)].max = 80)

\* C17 witness: the pH chart and the tank chart are drawn with their zones.
C17_Witness ==
    /\ chartsPc = "ok"
    /\ \E c1, c2 \in PageCharts :
          /\ c1.dataKeys = <<"ph">> /\ c2.dataKeys = <<"temp1", "temp2">>
          /\ PageView(c1).kind = "chart" /\ Len(PageView(c1).zones) = 3
          /\ PageView(c2).kind = "chart" /\ Len(PageView(c2).zones) = 3

====
